---- MODULE Spec2Model ----
(***************************************************************************)
(* Model of package mms (mms/mms.go): the MMS PDU types, their factories,  *)
(* the derivation of m-notifyresp.ind, the identifier generator and the    *)
(* classification of the m-send.conf response status.                      *)
(*                                                                         *)
(* The package is a library without global state.  The state of the model  *)
(* is the most recent call (its receiver before and after, its arguments   *)
(* and its result), the recipient slice the caller owns, and the process's *)
(* handles on the entropy source.                                          *)
(***************************************************************************)
EXTENDS Integers, Sequences, FiniteSets, TLC

VARIABLES
    op,          \* name of the most recent call ("init" before any)
    recv,        \* receiver of the call, as it was before the call
    recvAfter,   \* the same object after the call
    args,        \* arguments of the call (and the environment's answers)
    ret,         \* value returned by the call
    recipients,  \* the caller's recipient slice ([]string, shared backing array)
    supplied,    \* the recipient slice as the caller first filled it
    calls,       \* number of NewMSendReq calls made on the slice
    fds,         \* handles on /dev/urandom the process holds open
    opens,       \* os.Open calls made by the most recent call
    reads        \* File.Read calls made by the most recent call

vars == <<op, recv, recvAfter, args, ret, recipients, supplied, calls, fds, opens, reads>>

(***************************************************************************)
(* Bounds of the model.                                                    *)
(***************************************************************************)
MaxRecipients == 2   \* longest recipient list the caller supplies
MaxCalls == 2        \* NewMSendReq calls on the same slice
MaxSeed == 1         \* distinct contents of the entropy stream are 0..MaxSeed
MaxAttachments == 1  \* longest attachment list

(***************************************************************************)
(* Constants of mms.go.                                                    *)
(***************************************************************************)
TYPE_SEND_REQ == 128
TYPE_SEND_CONF == 129
TYPE_NOTIFICATION_IND == 130
TYPE_NOTIFYRESP_IND == 131
TYPE_RETRIEVE_CONF == 132

MMS_MESSAGE_VERSION_1_0 == 144
MMS_MESSAGE_VERSION_1_3 == 147

ResponseStatusOk == 128
ResponseStatusErrorUnspecified == 129
ResponseStatusErrorServiceDenied == 130
ResponseStatusErrorMessageFormatCorrupt == 131
ResponseStatusErrorSendingAddressUnresolved == 132
ResponseStatusErrorMessageNotFound == 133
ResponseStatusErrorNetworkProblem == 134
ResponseStatusErrorContentNotAccepted == 135
ResponseStatusErrorUnsupportedMessage == 136
ResponseStatusErrorTransientFailure == 192
ResponseStatusErrorTransientMaxReserved == 223
ResponseStatusErrorPermanentFailure == 224
ResponseStatusErrorPermamentMaxReserved == 255

STATUS_EXPIRED == 128
STATUS_RETRIEVED == 129
STATUS_REJECTED == 130
STATUS_DEFERRED == 131
STATUS_UNRECOGNIZED == 132

UuidBytes == 16      \* b := make([]byte, 16)

Byte == 0..255

ErrTransient == "Error-transient-failure"
ErrPermanent == "Error-permament-failure"
NilError == "nil"

Nil == [none |-> TRUE]

(***************************************************************************)
(* Values the environment supplies.                                        *)
(***************************************************************************)
Addresses == {"a", "b"}
RecipientLists == UNION {[1..n -> Addresses] : n \in 0..MaxRecipients}
AttachmentLists == {[i \in 1..n |-> i] : n \in 0..MaxAttachments}
Uuids == {"", "u1"}
TransactionIds == {"", "T1"}
Versions == {0, MMS_MESSAGE_VERSION_1_0, MMS_MESSAGE_VERSION_1_3}
NotifyStatuses == {STATUS_EXPIRED, STATUS_RETRIEVED, STATUS_REJECTED,
                   STATUS_DEFERRED, STATUS_UNRECOGNIZED}

(***************************************************************************)
(* genUUID: the identifier generator.                                      *)
(***************************************************************************)

\* What the operating system answers to one genUUID call: whether
\* os.Open("/dev/urandom") succeeds, how many bytes random.Read delivers
\* (0 when the read fails, fewer than 16 on a short read) and which bytes.
ReadCounts == {0, 1, UuidBytes - 1, UuidBytes}
EntropyAnswers ==
    {[openOk |-> FALSE, n |-> 0, seed |-> 0]} \cup
    {[openOk |-> TRUE, n |-> n, seed |-> sd] : n \in ReadCounts, sd \in 0..MaxSeed}

\* The i-th byte of the entropy stream with the given contents.
EntropyByte(seed, i) == (seed * 151 + i * 29) % 256

\* b := make([]byte, 16); random.Read(b): the first n bytes are overwritten,
\* the others keep the zero make() gave them.  The error Read returns is dropped.
ReadInto(env) ==
    [i \in 1..UuidBytes |-> IF i <= env.n THEN EntropyByte(env.seed, i) ELSE 0]

HexDigit == <<"0", "1", "2", "3", "4", "5", "6", "7",
              "8", "9", "a", "b", "c", "d", "e", "f">>

\* fmt.Sprintf("%x", b) on a byte slice: two lower-case digits for each byte.
RECURSIVE Sprintf_x(_)
Sprintf_x(b) ==
    IF b = <<>> THEN ""
    ELSE HexDigit[(Head(b) \div 16) + 1] \o HexDigit[(Head(b) % 16) + 1]
         \o Sprintf_x(Tail(b))

FallbackId == "1234567890ABCDEF"

\* genUUID with the deferred Close left out.
genUUID_NoClose(env) ==
    IF ~env.openOk
    THEN [id |-> FallbackId, opens |-> 1, reads |-> 0, opened |-> 0, closed |-> 0]
    ELSE [id |-> Sprintf_x(ReadInto(env)), opens |-> 1, reads |-> 1,
          opened |-> 1, closed |-> 0]

\* genUUID: the identifier, and the system calls made on the way.
\* opened: handles acquired; closed: handles released by the deferred Close.
genUUID(env) ==
    IF ~env.openOk
    THEN [id |-> FallbackId, opens |-> 1, reads |-> 0, opened |-> 0, closed |-> 0]
    ELSE [id |-> Sprintf_x(ReadInto(env)), opens |-> 1, reads |-> 1,
          opened |-> 1, closed |-> 1]

(***************************************************************************)
(* NewMSendReq.                                                            *)
(***************************************************************************)
Qualifier == "/TYPE=PLMN"
MultipartRelated == "application/vnd.wap.multipart.related"

\* for i := range recipients { recipients[i] += "/TYPE=PLMN" }
RewriteRecipients(rs) == [i \in 1..Len(rs) |-> rs[i] \o Qualifier]

\* strings.Join that forgets the separator.
Join_NoSep(elems, sep) ==
    LET Build[k \in 1..Len(elems)] ==
            IF k = 1 THEN elems[1] ELSE Build[k - 1] \o elems[k]
    IN  IF Len(elems) = 0 THEN "" ELSE Build[Len(elems)]

\* strings.Join(elems, sep): "" for no element, the element for one, and
\* otherwise the first element followed by sep and the next, in order.
Join(elems, sep) ==
    LET Build[k \in 1..Len(elems)] ==
            IF k = 1 THEN elems[1] ELSE Build[k - 1] \o sep \o elems[k]
    IN  IF Len(elems) = 0 THEN "" ELSE Build[Len(elems)]

\* The MSendReq literal of NewMSendReq; the fields it does not name are zero.
MSendReq(to, uuid, attachments) ==
    [UUID |-> uuid, Type |-> TYPE_SEND_REQ, TransactionId |-> uuid,
     Version |-> MMS_MESSAGE_VERSION_1_3, Date |-> 0, From |-> "", To |-> to,
     Cc |-> "", Bcc |-> "", Subject |-> "", Class |-> 0, Expiry |-> 0,
     DeliveryTime |-> 0, Priority |-> 0, SenderVisibility |-> 0,
     DeliveryReport |-> 0, ReadReply |-> 0, ContentType |-> MultipartRelated,
     Attachments |-> attachments]

\* NewMSendReq that qualifies a copy and leaves the caller's slice alone.
NewMSendReq_OnCopy(rs, attachments, env) ==
    LET rewritten == RewriteRecipients(rs)
        g == genUUID(env)
    IN  [recipients |-> rs,
         result |-> MSendReq(Join(rewritten, ","), g.id, attachments),
         g |-> g]

\* NewMSendReq(recipients, attachments): the slice after the call, the
\* request returned and what genUUID did.
NewMSendReq(rs, attachments, env) ==
    LET rewritten == RewriteRecipients(rs)
        g == genUUID(env)
    IN  [recipients |-> rewritten,
         result |-> MSendReq(Join(rewritten, ","), g.id, attachments),
         g |-> g]

(***************************************************************************)
(* The other factories.                                                    *)
(***************************************************************************)

\* The zero value of each struct.
ZeroMSendConf ==
    [Type |-> 0, TransactionId |-> "", Version |-> 0, ResponseStatus |-> 0,
     ResponseText |-> "", MessageId |-> ""]

ZeroMNotificationInd ==
    [UUID |-> "", Type |-> 0, Version |-> 0, Class |-> 0, DeliveryReport |-> 0,
     ReplyCharging |-> 0, ReplyChargingDeadline |-> 0, ReplyChargingId |-> "",
     TransactionId |-> "", ContentLocation |-> "", From |-> "", Subject |-> "",
     Expiry |-> 0, Size |-> 0]

ZeroMNotifyRespInd ==
    [UUID |-> "", Type |-> 0, TransactionId |-> "", Version |-> 0, Status |-> 0,
     ReportAllowed |-> FALSE]

ZeroMRetrieveConf ==
    [UUID |-> "", Type |-> 0, Version |-> 0, Status |-> 0, Class |-> 0,
     Priority |-> 0, ReplyCharging |-> 0, ReplyChargingDeadline |-> 0,
     ReplyChargingId |-> "", ReadReport |-> 0, RetrieveStatus |-> 0,
     DeliveryReport |-> 0, TransactionId |-> "", MessageId |-> "",
     RetrieveText |-> "", From |-> "", Cc |-> "", Subject |-> "", To |-> "",
     ReportAllowed |-> FALSE, Date |-> 0, Content |-> 0, Attachments |-> <<>>,
     Data |-> <<>>]

NewMSendConf == [ZeroMSendConf EXCEPT !.Type = TYPE_SEND_CONF]

NewMNotificationInd(env) ==
    LET g == genUUID(env)
    IN  [result |-> [ZeroMNotificationInd EXCEPT !.Type = TYPE_NOTIFICATION_IND,
                                                 !.UUID = g.id],
         g |-> g]

NewMNotifyRespInd == [ZeroMNotifyRespInd EXCEPT !.Type = TYPE_NOTIFYRESP_IND]

NewMRetrieveConf(uuid) ==
    [ZeroMRetrieveConf EXCEPT !.Type = TYPE_RETRIEVE_CONF, !.UUID = uuid]

(***************************************************************************)
(* Derivation of m-notifyresp.ind.                                         *)
(***************************************************************************)

\* The derivation that leaves the version at its zero value.
MNotificationInd_NewMNotifyRespInd_NoVersion(mNotificationInd, status, deliveryReport) ==
    [self |-> mNotificationInd,
     result |-> [UUID |-> mNotificationInd.UUID,
                 Type |-> TYPE_NOTIFYRESP_IND,
                 TransactionId |-> mNotificationInd.TransactionId,
                 Version |-> 0,
                 Status |-> status,
                 ReportAllowed |-> deliveryReport]]

\* (mNotificationInd *MNotificationInd) NewMNotifyRespInd(status, deliveryReport)
\* self: the receiver as the call leaves it.
MNotificationInd_NewMNotifyRespInd(mNotificationInd, status, deliveryReport) ==
    [self |-> mNotificationInd,
     result |-> [UUID |-> mNotificationInd.UUID,
                 Type |-> TYPE_NOTIFYRESP_IND,
                 TransactionId |-> mNotificationInd.TransactionId,
                 Version |-> mNotificationInd.Version,
                 Status |-> status,
                 ReportAllowed |-> deliveryReport]]

\* The derivation that takes the status from the confirmation.
MRetrieveConf_NewMNotifyRespInd_OwnStatus(mRetrieveConf, deliveryReport) ==
    [self |-> mRetrieveConf,
     result |-> [UUID |-> mRetrieveConf.UUID,
                 Type |-> TYPE_NOTIFYRESP_IND,
                 TransactionId |-> mRetrieveConf.TransactionId,
                 Version |-> mRetrieveConf.Version,
                 Status |-> mRetrieveConf.Status,
                 ReportAllowed |-> deliveryReport]]

\* (mRetrieveConf *MRetrieveConf) NewMNotifyRespInd(deliveryReport)
MRetrieveConf_NewMNotifyRespInd(mRetrieveConf, deliveryReport) ==
    [self |-> mRetrieveConf,
     result |-> [UUID |-> mRetrieveConf.UUID,
                 Type |-> TYPE_NOTIFYRESP_IND,
                 TransactionId |-> mRetrieveConf.TransactionId,
                 Version |-> mRetrieveConf.Version,
                 Status |-> STATUS_RETRIEVED,
                 ReportAllowed |-> deliveryReport]]

(***************************************************************************)
(* MSendConf.Status.                                                       *)
(***************************************************************************)
NoMatch == "no-match"

\* The switch with 133 taken for a transient failure.
SwitchStep_133Transient(s) ==
    CASE s = ResponseStatusOk -> NilError
      [] s = ResponseStatusErrorUnspecified -> ErrTransient
      [] s = ResponseStatusErrorServiceDenied -> ErrTransient
      [] s = ResponseStatusErrorMessageFormatCorrupt -> ErrPermanent
      [] s = ResponseStatusErrorSendingAddressUnresolved -> ErrPermanent
      [] s = ResponseStatusErrorMessageNotFound -> ErrTransient
      [] s = ResponseStatusErrorNetworkProblem -> ErrTransient
      [] s = ResponseStatusErrorContentNotAccepted -> ErrPermanent
      [] s = ResponseStatusErrorUnsupportedMessage -> ErrPermanent
      [] OTHER -> NoMatch

\* switch s { case ...: return ... }: the codes decided one by one.
SwitchStep(s) ==
    CASE s = ResponseStatusOk -> NilError
      [] s = ResponseStatusErrorUnspecified -> ErrTransient
      [] s = ResponseStatusErrorServiceDenied -> ErrTransient
      [] s = ResponseStatusErrorMessageFormatCorrupt -> ErrPermanent
      [] s = ResponseStatusErrorSendingAddressUnresolved -> ErrPermanent
      [] s = ResponseStatusErrorMessageNotFound -> ErrPermanent
      [] s = ResponseStatusErrorNetworkProblem -> ErrTransient
      [] s = ResponseStatusErrorContentNotAccepted -> ErrPermanent
      [] s = ResponseStatusErrorUnsupportedMessage -> ErrPermanent
      [] OTHER -> NoMatch

\* if s >= ResponseStatusErrorTransientFailure && s <= ...TransientMaxReserved
TransientStep(s) ==
    IF s >= ResponseStatusErrorTransientFailure
       /\ s <= ResponseStatusErrorTransientMaxReserved
    THEN ErrTransient ELSE NoMatch

\* The permanent range tested from the lower end of the transient range.
PermanentStep_FromTransient(s) ==
    IF s >= ResponseStatusErrorTransientFailure
       /\ s <= ResponseStatusErrorPermamentMaxReserved
    THEN ErrPermanent ELSE NoMatch

\* else if s >= ResponseStatusErrorPermanentFailure && s <= ...PermamentMaxReserved
PermanentStep(s) ==
    IF s >= ResponseStatusErrorPermanentFailure
       /\ s <= ResponseStatusErrorPermamentMaxReserved
    THEN ErrPermanent ELSE NoMatch

Step(k, s) ==
    CASE k = 1 -> SwitchStep(s)
      [] k = 2 -> TransientStep(s)
      [] k = 3 -> PermanentStep(s)

\* The steps tried in the given order, the first that decides returns;
\* "any case not handled is a permanent error".
RECURSIVE FirstMatch(_, _)
FirstMatch(order, s) ==
    IF order = <<>> THEN ErrPermanent
    ELSE IF Step(Head(order), s) # NoMatch THEN Step(Head(order), s)
    ELSE FirstMatch(Tail(order), s)

\* The order of the steps in Status().
SourceOrder == <<1, 2, 3>>

\* (mSendConf *MSendConf) Status(): the receiver as the call leaves it and
\* the error returned.
Status(mSendConf) ==
    [self |-> mSendConf,
     err |-> FirstMatch(SourceOrder, mSendConf.ResponseStatus)]

(***************************************************************************)
(* The struct tags: the directive of each field of each PDU type.          *)
(***************************************************************************)
Kinds == {"MSendReq", "MSendConf", "MNotificationInd", "MNotifyRespInd",
          "MRetrieveConf"}

\* The fields of each struct, in declaration order.
StructFields(kind) ==
    CASE kind = "MSendReq" ->
           <<"UUID", "Type", "TransactionId", "Version", "Date", "From", "To",
             "Cc", "Bcc", "Subject", "Class", "Expiry", "DeliveryTime",
             "Priority", "SenderVisibility", "DeliveryReport", "ReadReply",
             "ContentType", "Attachments">>
      [] kind = "MSendConf" ->
           <<"Type", "TransactionId", "Version", "ResponseStatus",
             "ResponseText", "MessageId">>
      [] kind = "MNotificationInd" ->
           <<"MMSReader", "UUID", "Type", "Version", "Class", "DeliveryReport",
             "ReplyCharging", "ReplyChargingDeadline", "ReplyChargingId",
             "TransactionId", "ContentLocation", "From", "Subject", "Expiry",
             "Size">>
      [] kind = "MNotifyRespInd" ->
           <<"UUID", "Type", "TransactionId", "Version", "Status",
             "ReportAllowed">>
      [] kind = "MRetrieveConf" ->
           <<"MMSReader", "UUID", "Type", "Version", "Status", "Class",
             "Priority", "ReplyCharging", "ReplyChargingDeadline",
             "ReplyChargingId", "ReadReport", "RetrieveStatus",
             "DeliveryReport", "TransactionId", "MessageId", "RetrieveText",
             "From", "Cc", "Subject", "To", "ReportAllowed", "Date", "Content",
             "Attachments", "Data">>

FieldSet(kind) == {StructFields(kind)[i] : i \in 1..Len(StructFields(kind))}

MSendReqOptional ==
    {"Date", "Subject", "Class", "Expiry", "DeliveryTime", "Priority",
     "SenderVisibility", "DeliveryReport", "ReadReply"}

\* The tags with the one on MSendReq.Cc forgotten.
EncodeTag_CcUntagged(kind, field) ==
    CASE kind = "MSendReq" /\ field \in {"UUID", "Bcc", "Attachments"} -> "no"
      [] kind = "MSendReq" /\ field \in MSendReqOptional -> "optional"
      [] kind = "MNotifyRespInd" /\ field = "UUID" -> "no"
      [] OTHER -> ""

\* The value of the `encode:"..."` tag of a field, "" for a field without.
EncodeTag(kind, field) ==
    CASE kind = "MSendReq" /\ field \in {"UUID", "Cc", "Bcc", "Attachments"} -> "no"
      [] kind = "MSendReq" /\ field \in MSendReqOptional -> "optional"
      [] kind = "MNotifyRespInd" /\ field = "UUID" -> "no"
      [] OTHER -> ""

\* The fields of a PDU that reach the wire, given the fields that hold a
\* non-zero value: a field tagged "no" never does, one tagged "optional"
\* does when it is set, any other always does.
EncodableFields(kind, nonzero) ==
    {f \in FieldSet(kind) :
        /\ EncodeTag(kind, f) # "no"
        /\ EncodeTag(kind, f) = "optional" => f \in nonzero}

\* The sets of set fields the encoder is tried on: none, all, one, all but one.
Fillings(kind) ==
    {{}, FieldSet(kind)} \cup
    {{f} : f \in FieldSet(kind)} \cup
    {FieldSet(kind) \ {f} : f \in FieldSet(kind)}

(***************************************************************************)
(* PDUs as the decoder or the caller hands them over.                      *)
(***************************************************************************)
SendConfs ==
    {[Type |-> TYPE_SEND_CONF, TransactionId |-> f[1], Version |-> f[2],
      ResponseStatus |-> s, ResponseText |-> f[3], MessageId |-> f[4]] :
        f \in {<<"", 0, "", "">>,
               <<"T1", MMS_MESSAGE_VERSION_1_3, "text", "m1">>},
        s \in Byte}

NotificationInds ==
    {[ZeroMNotificationInd EXCEPT !.Type = TYPE_NOTIFICATION_IND,
        !.UUID = u, !.TransactionId = t, !.Version = v,
        !.DeliveryReport = f[1], !.ContentLocation = f[2], !.Size = f[3]] :
        u \in Uuids, t \in TransactionIds, v \in Versions,
        f \in {<<0, "", 0>>, <<128, "http://mmsc/1", 1>>}}

RetrieveConfs ==
    {[ZeroMRetrieveConf EXCEPT !.Type = TYPE_RETRIEVE_CONF,
        !.UUID = u, !.TransactionId = t, !.Version = v,
        !.Status = st, !.RetrieveStatus = rs, !.ReportAllowed = ra] :
        u \in Uuids, t \in TransactionIds, v \in Versions,
        st \in {0, STATUS_DEFERRED}, rs \in {0, 128}, ra \in BOOLEAN}

(***************************************************************************)
(* The state machine.                                                      *)
(***************************************************************************)
Init ==
    /\ op = "init"
    /\ recv = Nil
    /\ recvAfter = Nil
    /\ args = Nil
    /\ ret = Nil
    /\ supplied \in RecipientLists
    /\ recipients = supplied
    /\ calls = 0
    /\ fds = 0
    /\ opens = 0
    /\ reads = 0

\* No entropy source is touched and the caller's slice is not passed.
Pure == UNCHANGED <<recipients, supplied, calls, fds>> /\ opens' = 0 /\ reads' = 0

CallNewMSendReq ==
    /\ calls < MaxCalls
    /\ \E attachments \in AttachmentLists, env \in EntropyAnswers :
        LET r == NewMSendReq(recipients, attachments, env) IN
        /\ op' = "NewMSendReq"
        /\ recv' = Nil
        /\ recvAfter' = Nil
        /\ args' = [recipients |-> recipients, attachments |-> attachments,
                    env |-> env]
        /\ ret' = r.result
        /\ recipients' = r.recipients
        /\ calls' = calls + 1
        /\ fds' = fds + r.g.opened - r.g.closed
        /\ opens' = r.g.opens
        /\ reads' = r.g.reads
        /\ UNCHANGED supplied

CallNewMNotificationInd ==
    \E env \in EntropyAnswers :
        LET r == NewMNotificationInd(env) IN
        /\ op' = "NewMNotificationInd"
        /\ recv' = Nil
        /\ recvAfter' = Nil
        /\ args' = [env |-> env]
        /\ ret' = r.result
        /\ fds' = fds + r.g.opened - r.g.closed
        /\ opens' = r.g.opens
        /\ reads' = r.g.reads
        /\ UNCHANGED <<recipients, supplied, calls>>

CallNewMSendConf ==
    /\ op' = "NewMSendConf"
    /\ recv' = Nil
    /\ recvAfter' = Nil
    /\ args' = Nil
    /\ ret' = NewMSendConf
    /\ Pure

CallNewMNotifyRespInd ==
    /\ op' = "NewMNotifyRespInd"
    /\ recv' = Nil
    /\ recvAfter' = Nil
    /\ args' = Nil
    /\ ret' = NewMNotifyRespInd
    /\ Pure

CallNewMRetrieveConf ==
    \E uuid \in Uuids :
        /\ op' = "NewMRetrieveConf"
        /\ recv' = Nil
        /\ recvAfter' = Nil
        /\ args' = [uuid |-> uuid]
        /\ ret' = NewMRetrieveConf(uuid)
        /\ Pure

CallNotificationNewMNotifyRespInd ==
    \E ind \in NotificationInds, status \in NotifyStatuses \cup {0},
       deliveryReport \in BOOLEAN :
        LET r == MNotificationInd_NewMNotifyRespInd(ind, status, deliveryReport) IN
        /\ op' = "MNotificationInd.NewMNotifyRespInd"
        /\ recv' = ind
        /\ recvAfter' = r.self
        /\ args' = [status |-> status, deliveryReport |-> deliveryReport]
        /\ ret' = r.result
        /\ Pure

CallRetrieveNewMNotifyRespInd ==
    \E conf \in RetrieveConfs, deliveryReport \in BOOLEAN :
        LET r == MRetrieveConf_NewMNotifyRespInd(conf, deliveryReport) IN
        /\ op' = "MRetrieveConf.NewMNotifyRespInd"
        /\ recv' = conf
        /\ recvAfter' = r.self
        /\ args' = [deliveryReport |-> deliveryReport]
        /\ ret' = r.result
        /\ Pure

CallStatus ==
    \E conf \in SendConfs :
        LET r == Status(conf) IN
        /\ op' = "Status"
        /\ recv' = conf
        /\ recvAfter' = r.self
        /\ args' = Nil
        /\ ret' = [err |-> r.err]
        /\ Pure

\* The factories, the identifier generator and the caller's slice.
Next ==
    \/ CallNewMSendReq
    \/ CallNewMNotificationInd
    \/ CallNewMSendConf
    \/ CallNewMNotifyRespInd
    \/ CallNewMRetrieveConf

Spec == Init /\ [][Next]_vars

\* The two derivations of m-notifyresp.ind, on PDUs handed over by the decoder.
InitIdle == Init /\ supplied = <<>>

NextDerive ==
    \/ CallNotificationNewMNotifyRespInd
    \/ CallRetrieveNewMNotifyRespInd

SpecDerive == InitIdle /\ [][NextDerive]_vars

\* The classification of m-send.conf.
NextStatus == CallStatus

SpecStatus == InitIdle /\ [][NextStatus]_vars

\* The directive table, consulted for a PDU of any type.
CallEncode ==
    \E kind \in Kinds :
        \E nonzero \in Fillings(kind) :
            /\ op' = "Encode"
            /\ recv' = [kind |-> kind, nonzero |-> nonzero]
            /\ recvAfter' = recv'
            /\ args' = Nil
            /\ ret' = [fields |-> EncodableFields(kind, nonzero)]
            /\ Pure

NextEncode == CallEncode

SpecEncode == InitIdle /\ [][NextEncode]_vars

(***************************************************************************)
(* The properties.                                                         *)
(***************************************************************************)

\* C1: Status() returns nil for status byte 128, ErrTransient for 129, 130,
\* 134 and 192..223, ErrPermanent for every other byte; the result depends
\* on the status byte alone and the confirmation is left as it was.
C1_StatusByByte ==
    op = "Status" =>
        LET b == recv.ResponseStatus IN
        /\ ret.err = (IF b = 128 THEN "nil"
                      ELSE IF b \in {129, 130, 134} \cup (192..223)
                           THEN "Error-transient-failure"
                           ELSE "Error-permament-failure")
        /\ recvAfter = recv

C1_Witness ==
    /\ op = "Status"
    /\ recv.ResponseStatus = 133
    /\ recv.TransactionId = "T1"
    /\ ret.err = "Error-permament-failure"

\* C2: in both derivations the response carries the UUID, TransactionId and
\* Version of the source PDU, the type 0x83 and the deliveryReport argument
\* as ReportAllowed, and the source PDU is unchanged; derived from a
\* notification, its Status is the status argument.
C2_DerivedMirrorsSource ==
    op \in {"MNotificationInd.NewMNotifyRespInd", "MRetrieveConf.NewMNotifyRespInd"} =>
        /\ ret.UUID = recv.UUID
        /\ ret.TransactionId = recv.TransactionId
        /\ ret.Version = recv.Version
        /\ ret.Type = 131
        /\ ret.ReportAllowed = args.deliveryReport
        /\ recvAfter = recv
        /\ op = "MNotificationInd.NewMNotifyRespInd" => ret.Status = args.status

C2_Witness ==
    /\ op = "MNotificationInd.NewMNotifyRespInd"
    /\ recv.UUID = "u1"
    /\ recv.TransactionId = "T1"
    /\ recv.Version = 147
    /\ args.status = 131
    /\ args.deliveryReport
    /\ ret.Version = 147
    /\ ret.Status = 131

\* C3: derived from a retrieve confirmation, the response has Status 129
\* (retrieved) whatever the confirmation and the argument hold.
C3_RetrievedStatus ==
    op = "MRetrieveConf.NewMNotifyRespInd" => ret.Status = 129

C3_Witness ==
    /\ op = "MRetrieveConf.NewMNotifyRespInd"
    /\ recv.Status = 131
    /\ recv.RetrieveStatus = 128
    /\ ~args.deliveryReport
    /\ ret.Status = 129

\* The To field the claims expect for a list: every entry followed by the
\* qualifier, in order, with a comma between two entries.
RECURSIVE ExpectedTo(_)
ExpectedTo(rs) ==
    IF Len(rs) = 0 THEN ""
    ELSE IF Len(rs) = 1 THEN rs[1] \o "/TYPE=PLMN"
    ELSE rs[1] \o "/TYPE=PLMN" \o "," \o ExpectedTo(Tail(rs))

\* C4: NewMSendReq returns a request whose To is the qualified entries in
\* input order joined by commas, whose TransactionId and UUID are non-empty
\* and equal, with type 0x80, version 0x93, the multipart-related content
\* type and the attachments it was given.
C4_SendReqFields ==
    op = "NewMSendReq" =>
        /\ ret.To = ExpectedTo(args.recipients)
        /\ ret.TransactionId # ""
        /\ ret.UUID = ret.TransactionId
        /\ ret.Type = 128
        /\ ret.Version = 147
        /\ ret.ContentType = "application/vnd.wap.multipart.related"
        /\ ret.Attachments = args.attachments

C4_Witness ==
    /\ op = "NewMSendReq"
    /\ args.recipients = <<"a", "b">>
    /\ args.attachments = <<1>>
    /\ ret.To = "a/TYPE=PLMN,b/TYPE=PLMN"
    /\ Len(ret.UUID) = 32

\* C5: genUUID returns the literal 1234567890ABCDEF whenever the open fails,
\* the read fails or the read is short, and the hex encoding of the 16 bytes
\* read only when the open and a full read succeed.
C5_FallbackOnAnyFailure ==
    op \in {"NewMSendReq", "NewMNotificationInd"} =>
        IF args.env.openOk /\ args.env.n = 16
        THEN /\ Len(ret.UUID) = 32
             /\ ret.UUID = Sprintf_x([i \in 1..16 |-> EntropyByte(args.env.seed, i)])
        ELSE ret.UUID = "1234567890ABCDEF"

\* C6: NewMSendReq yields no request for an empty recipient list, so every
\* request it yields has a non-empty To.
C6_EmptyRecipientsRejected ==
    op = "NewMSendReq" => (Len(args.recipients) > 0 /\ ret.To # "")

\* The fields C7 names as bookkeeping, by PDU type.
Bookkeeping(kind) ==
    CASE kind = "MSendReq" -> {"UUID", "Cc", "Bcc", "Attachments"}
      [] kind \in {"MNotificationInd", "MNotifyRespInd", "MRetrieveConf"} -> {"UUID"}
      [] OTHER -> {}

RECURSIVE QualifierTimes(_)
QualifierTimes(k) == IF k = 0 THEN "" ELSE "/TYPE=PLMN" \o QualifierTimes(k - 1)

\* C8: NewMSendReq rewrites the caller's slice in place: same length and
\* order, each entry its former value followed by the qualifier; after k
\* calls on the same slice every entry, and every address of the k-th
\* request's To, carries the qualifier k times.
C8_RewrittenInPlace ==
    /\ Len(recipients) = Len(supplied)
    /\ \A i \in 1..Len(supplied) :
          recipients[i] = supplied[i] \o QualifierTimes(calls)
    /\ op = "NewMSendReq" =>
          /\ Len(recipients) = Len(args.recipients)
          /\ \A i \in 1..Len(recipients) :
                recipients[i] = args.recipients[i] \o "/TYPE=PLMN"
          /\ ret.To = ExpectedTo([i \in 1..Len(supplied) |->
                                    supplied[i] \o QualifierTimes(calls - 1)])

C8_Witness ==
    /\ op = "NewMSendReq"
    /\ calls = 2
    /\ supplied = <<"a", "b">>
    /\ recipients = <<"a/TYPE=PLMN/TYPE=PLMN", "b/TYPE=PLMN/TYPE=PLMN">>
    /\ ret.To = "a/TYPE=PLMN/TYPE=PLMN,b/TYPE=PLMN/TYPE=PLMN"

\* C9: a genUUID call opens the entropy source at most once and reads it
\* at most once, and only after a successful open; when the call is over,
\* also after a failed open or read, the process holds no handle on it.
C9_HandleReleased ==
    /\ fds = 0
    /\ opens <= 1
    /\ reads <= 1
    /\ op \in {"NewMSendReq", "NewMNotificationInd"} =>
          /\ opens = 1
          /\ reads = (IF args.env.openOk THEN 1 ELSE 0)

C9_Witness ==
    /\ op = "NewMSendReq"
    /\ calls = 2
    /\ args.env.openOk
    /\ args.env.n = 0
    /\ reads = 1
    /\ fds = 0

\* The orders of the three deciding steps other than the one of the source
\* (the default stays last).
Reorderings ==
    {o \in [1..3 -> 1..3] : {o[1], o[2], o[3]} = {1, 2, 3} /\ o # SourceOrder}

\* C10 as stated: some reordering of the steps of Status() changes the
\* outcome Status() returns for some byte.
C10_OrderObservable ==
    op = "Status" =>
        \E b \in Byte : \E o \in Reorderings :
            FirstMatch(o, b) # Status([recv EXCEPT !.ResponseStatus = b]).err

\* C10, amended: the order of the steps is not observable: for every status
\* byte every reordering of the three deciding steps returns what Status()
\* returns.
C10_OrderNotObservable ==
    op = "Status" =>
        \A o \in Reorderings : FirstMatch(o, recv.ResponseStatus) = ret.err

C10_Witness ==
    /\ op = "Status"
    /\ recv.ResponseStatus = 224
    /\ ret.err = "Error-permament-failure"
    /\ FirstMatch(<<3, 2, 1>>, 224) = ret.err

====
